---- MODULE Spec2Model ----
(***************************************************************************)
(* Model of paste.py: App.execute pastes the target images of every        *)
(* directory below a root into a worksheet, one block of rows per          *)
(* directory.  The worksheet, the App object and the local variables of    *)
(* execute are the state; one action per step of execute's double loop.    *)
(***************************************************************************)
EXTENDS Integers, Sequences, FiniteSets, TLC

(* ------------------------------ bounds ------------------------------- *)
\* directories returned by get_dir_list (the root included), single run
MaxDirs == 2
\* length of image_names, single run
MaxNames == 2
\* decodable target images in the whole tree
MaxLoaded == 3
\* the directory and filename bounds of the two-run specification
TwiceDirs == 2
TwiceNames == 1

(* ------------------------- program constants -------------------------- *)
cell_width_pix == 88
cell_height_pix == 18
img_insert_width == cell_width_pix * 3
cols_per_img == 4
init_max_cols == 200
max_rows == 1000
\* an attribute that __init__/set_info never assigns (reading it raises)
NoAttr == -1

(* ------------------------------ inputs -------------------------------- *)
\* main's root_dir and the sub-directories glob('**') may list below it
root_dir == "test_dir"
DirPool == << "test_dir/sub_b", "test_dir/a", "test_dir/a/deeper", "test_dir/c" >>
\* main's image_names
NamePool == << "test.bmp", "red.bmp", "green.bmp", "blue.bmp" >>

\* what imread returns: None, or a decoded image of shape (h, w)
NoImage == [ok |-> FALSE, w |-> 0, h |-> 0]
Img(w, h) == [ok |-> TRUE, w |-> w, h |-> h]
Images == { Img(264, 54), Img(176, 13), Img(132, 41), Img(400, 1) }
ImreadResults == {NoImage} \cup Images

Min(a, b) == IF a < b THEN a ELSE b
Max(a, b) == IF a > b THEN a ELSE b

VARIABLES
    tree,            \* input: [exists, nsub] the root and its sub-directories
    image_names,     \* input: the ordered target filenames
    fs,              \* what the directory loop has read from the file system
    app,             \* the App object's attributes
    ws,              \* the worksheet
    pc,              \* position in execute
    err,             \* the exception execute raised, "" when none
    dirs, dir_idx, img_idx,
    pic_insert_row, pic_insert_col, max_dir_len,
    blocks,          \* per directory with files: header row, row span once advanced
    lastOrig,        \* the image handed to img_resize most recently
    runs, run,       \* invocations planned / current invocation
    app_reused,      \* the current invocation runs on the previous one's App
    ws_first, err_first   \* outcome of the first invocation

vars == << tree, image_names, fs, app, ws, pc, err, dirs, dir_idx, img_idx,
           pic_insert_row, pic_insert_col, max_dir_len, blocks, lastOrig,
           runs, run, app_reused, ws_first, err_first >>

(* ----------------------------- worksheet ------------------------------ *)
EmptySheet ==
    [ text |-> [x \in {} |-> ""], border |-> [x \in {} |-> ""],
      images |-> << >>, col_width |-> << >>, resized |-> FALSE ]

Put(f, k, v) == [x \in (DOMAIN f) \cup {k} |-> IF x = k THEN v ELSE f[x]]
PutAll(f, ks, v) == [x \in (DOMAIN f) \cup ks |-> IF x \in ks THEN v ELSE f[x]]

write_info(sheet, row, col, info) ==
    [sheet EXCEPT !.text = Put(@, <<row, col>>, info)]

set_border(sheet, cells, style) ==
    [sheet EXCEPT !.border = PutAll(@, cells, style)]

add_image(sheet, row, col, width, height) ==
    [sheet EXCEPT !.images =
        Append(@, [row |-> row, col |-> col, w |-> width, h |-> height])]

set_col1_width(sheet, width) ==
    [sheet EXCEPT !.col_width = Append(@, width)]

format_cells(sheet) ==
    IF cell_width_pix # 88 \/ cell_height_pix # 18
    THEN [sheet EXCEPT !.resized = TRUE]
    ELSE sheet

(* -------------------------------- App --------------------------------- *)
NewApp ==
    [ max_cols |-> init_max_cols, max_rows |-> max_rows, rows_per_img |-> NoAttr,
      image_width |-> NoAttr, image_height |-> NoAttr ]

get_dir_list(t) ==
    IF t.exists THEN <<root_dir>> \o SubSeq(DirPool, 1, t.nsub) ELSE << >>

CeilDiv(a, b) == -((-a) \div b)

\* size[1] of img_resize
resize_height(img) == (img.h * img_insert_width) \div img.w

\* cv2.resize rejects an empty dsize
resize_raises(img) == resize_height(img) <= 0

\* the App after line 96 only (cv2.resize raised)
img_resize_aborted(a, img) ==
    [a EXCEPT !.image_height = img.h, !.image_width = img.w]

\* variant: the row span keeps the tallest image seen instead of the last one
img_resize_keeps_tallest(a, img) ==
    [a EXCEPT !.image_width = img_insert_width,
              !.image_height = resize_height(img),
              !.rows_per_img = Max(@, CeilDiv(resize_height(img), cell_height_pix))]

img_resize(a, img) ==
    [a EXCEPT !.image_width = img_insert_width,
              !.image_height = resize_height(img),
              !.rows_per_img = CeilDiv(resize_height(img), cell_height_pix)]

get_next_col(a, crr_col) == crr_col + cols_per_img
\* variant: one more spacing row below the images
get_next_row_wider_gap(a, crr_row) == crr_row + a.rows_per_img + 4
get_next_row(a, crr_row) == crr_row + a.rows_per_img + 3

execute_max_cols(names) == 1 + cols_per_img * Len(names)

\* variant: min where the code takes max
next_max_dir_len_min(cur, directory) == Min(cur, Len(directory))
next_max_dir_len(cur, directory) == Max(cur, Len(directory))

top_border_cells(a, row) == { <<row, c>> : c \in 1 .. a.max_cols }
\* variant: the border loop stops one row early
right_border_cells_short(a, row) == { <<row + dr, 1>> : dr \in 1 .. (a.rows_per_img + 2 - 1) }
right_border_cells(a, row) == { <<row + dr, 1>> : dr \in 1 .. (a.rows_per_img + 3 - 1) }

(* ------------------------------ actions ------------------------------- *)
N == Len(image_names)

InitWith(nruns, maxd, maxn) ==
    /\ runs = nruns /\ run = 1 /\ app_reused = FALSE
    /\ \E e \in BOOLEAN, k \in 0 .. (maxd - 1) :
          tree = [exists |-> e, nsub |-> IF e THEN k ELSE 0]
    /\ \E n \in 0 .. Min(maxn, Len(NamePool)) : image_names = SubSeq(NamePool, 1, n)
    /\ fs = << >>
    /\ app = NewApp
    /\ ws = EmptySheet
    /\ pc = "idle" /\ err = ""
    /\ dirs = << >> /\ dir_idx = 0 /\ img_idx = 0
    /\ pic_insert_row = 0 /\ pic_insert_col = 0 /\ max_dir_len = 0
    /\ blocks = << >>
    /\ lastOrig = NoImage
    /\ ws_first = EmptySheet /\ err_first = ""

Init == InitWith(1, MaxDirs, MaxNames)
InitTwice == InitWith(2, TwiceDirs, TwiceNames)

\* lines 129-142
Begin ==
    /\ pc = "idle"
    /\ app' = [app EXCEPT !.max_cols = execute_max_cols(image_names)]
    /\ ws' = format_cells(ws)
    /\ pic_insert_row' = 2 /\ pic_insert_col' = 2
    /\ dirs' = get_dir_list(tree)
    /\ max_dir_len' = 0
    /\ dir_idx' = 1 /\ img_idx' = 0
    /\ pc' = "dirs"
    /\ UNCHANGED << tree, image_names, fs, err, blocks, lastOrig, runs, run, app_reused,
                    ws_first, err_first >>

\* the images read so far, in reading order
RECURSIVE ReadUpTo(_)
ReadUpTo(d) == IF d = 0 THEN << >> ELSE ReadUpTo(d - 1) \o fs[d].imgs
LoadedSoFar == SelectSeq(ReadUpTo(Len(fs)), LAMBDA im : im.ok)

\* the directory under the loop has / has no regular file; the first run
\* reads it from the file system, a later run finds the same file system
ReadDir(files) ==
    IF run = 1
    THEN fs' = Append(fs, [files |-> files, imgs |-> << >>])
    ELSE dir_idx <= Len(fs) /\ fs[dir_idx].files = files /\ fs' = fs

ReadImage(img) ==
    IF run = 1
    THEN /\ img.ok => Len(LoadedSoFar) < MaxLoaded
         /\ fs' = [fs EXCEPT ![dir_idx].imgs = Append(@, img)]
    ELSE /\ dir_idx <= Len(fs) /\ img_idx <= Len(fs[dir_idx].imgs)
         /\ fs[dir_idx].imgs[img_idx] = img
         /\ fs' = fs

\* variant: the label length is tracked before the file check
SkipDir_tracks_len ==
    /\ pc = "dirs" /\ dir_idx <= Len(dirs)
    /\ ReadDir(FALSE)
    /\ dir_idx' = dir_idx + 1
    /\ max_dir_len' = next_max_dir_len(max_dir_len, dirs[dir_idx])
    /\ UNCHANGED << tree, image_names, app, ws, pc, err, dirs, img_idx,
                    pic_insert_row, pic_insert_col, blocks,
                    lastOrig, runs, run, app_reused, ws_first, err_first >>

\* lines 143-148: len(files) == 0, continue
SkipDir ==
    /\ pc = "dirs" /\ dir_idx <= Len(dirs)
    /\ ReadDir(FALSE)
    /\ dir_idx' = dir_idx + 1
    /\ UNCHANGED << tree, image_names, app, ws, pc, err, dirs, img_idx,
                    pic_insert_row, pic_insert_col, max_dir_len, blocks,
                    lastOrig, runs, run, app_reused, ws_first, err_first >>

\* lines 143-155: top border across the row, directory label, max_dir_len
DirHeader ==
    /\ pc = "dirs" /\ dir_idx <= Len(dirs)
    /\ ReadDir(TRUE)
    /\ ws' = write_info(set_border(ws, top_border_cells(app, pic_insert_row), "top"),
                        pic_insert_row, 1, dirs[dir_idx])
    /\ max_dir_len' = next_max_dir_len(max_dir_len, dirs[dir_idx])
    /\ blocks' = Append(blocks, [dir |-> dir_idx, row |-> pic_insert_row,
                                 span |-> 0, done |-> FALSE])
    /\ img_idx' = 1
    /\ pc' = "names"
    /\ UNCHANGED << tree, image_names, app, err, dirs, dir_idx, pic_insert_row,
                    pic_insert_col, lastOrig, runs, run, app_reused, ws_first, err_first >>

\* variant: a failed load skips the column advance too
SlotLoadFails_no_advance ==
    /\ pc = "names" /\ img_idx <= N
    /\ ReadImage(NoImage)
    /\ ws' = write_info(ws, pic_insert_row, pic_insert_col + 1, image_names[img_idx])
    /\ img_idx' = img_idx + 1
    /\ UNCHANGED << tree, image_names, app, pc, err, dirs, dir_idx, pic_insert_row,
                    pic_insert_col, max_dir_len, blocks, lastOrig, runs, run,
                    app_reused, ws_first, err_first >>

\* lines 157-166, 174: imread returned None
SlotLoadFails ==
    /\ pc = "names" /\ img_idx <= N
    /\ ReadImage(NoImage)
    /\ ws' = write_info(ws, pic_insert_row, pic_insert_col + 1, image_names[img_idx])
    /\ pic_insert_col' = get_next_col(app, pic_insert_col)
    /\ img_idx' = img_idx + 1
    /\ UNCHANGED << tree, image_names, app, pc, err, dirs, dir_idx, pic_insert_row,
                    max_dir_len, blocks, lastOrig, runs, run, app_reused, ws_first, err_first >>

\* lines 157-174: the image loads, is resized and embedded
SlotEmbed ==
    /\ pc = "names" /\ img_idx <= N
    /\ \E img \in Images :
          /\ ~resize_raises(img)
          /\ ReadImage(img)
          /\ app' = img_resize(app, img)
          /\ ws' = add_image(write_info(ws, pic_insert_row, pic_insert_col + 1,
                                        image_names[img_idx]),
                             pic_insert_row + 1, pic_insert_col + 1,
                             app'.image_width, app'.image_height)
          /\ lastOrig' = img
    /\ pic_insert_col' = get_next_col(app, pic_insert_col)
    /\ img_idx' = img_idx + 1
    /\ UNCHANGED << tree, image_names, pc, err, dirs, dir_idx, pic_insert_row,
                    max_dir_len, blocks, runs, run, app_reused, ws_first, err_first >>

\* lines 157-167, 94-98: the image loads and cv2.resize raises on its size
SlotResizeRaises ==
    /\ pc = "names" /\ img_idx <= N
    /\ \E img \in Images :
          /\ resize_raises(img)
          /\ ReadImage(img)
          /\ app' = img_resize_aborted(app, img)
          /\ lastOrig' = img
    /\ ws' = write_info(ws, pic_insert_row, pic_insert_col + 1, image_names[img_idx])
    /\ pc' = "error" /\ err' = "cv2.error"
    /\ UNCHANGED << tree, image_names, dirs, dir_idx, img_idx, pic_insert_row,
                    pic_insert_col, max_dir_len, blocks, runs, run, app_reused, ws_first, err_first >>

\* lines 176-184: label-column borders, cursor advance
DirFooter ==
    /\ pc = "names" /\ img_idx > N
    /\ app.rows_per_img # NoAttr
    /\ ws' = set_border(set_border(ws, {<<pic_insert_row, 1>>}, "right_top"),
                        right_border_cells(app, pic_insert_row), "right")
    /\ blocks' = [blocks EXCEPT ![Len(blocks)].span = app.rows_per_img,
                                ![Len(blocks)].done = TRUE]
    /\ pic_insert_col' = 2
    /\ pic_insert_row' = get_next_row(app, pic_insert_row)
    /\ dir_idx' = dir_idx + 1
    /\ pc' = "dirs"
    /\ UNCHANGED << tree, image_names, fs, app, err, dirs, img_idx, max_dir_len,
                    lastOrig, runs, run, app_reused, ws_first, err_first >>

\* line 176: self.rows_per_img was never assigned
FooterRaises ==
    /\ pc = "names" /\ img_idx > N
    /\ app.rows_per_img = NoAttr
    /\ pc' = "error" /\ err' = "AttributeError"
    /\ UNCHANGED << tree, image_names, fs, app, ws, dirs, dir_idx, img_idx,
                    pic_insert_row, pic_insert_col, max_dir_len, blocks, lastOrig,
                    runs, run, app_reused, ws_first, err_first >>

\* line 186
Finish ==
    /\ pc = "dirs" /\ dir_idx > Len(dirs)
    /\ ws' = set_col1_width(ws, max_dir_len)
    /\ pc' = "done"
    /\ UNCHANGED << tree, image_names, fs, app, err, dirs, dir_idx, img_idx,
                    pic_insert_row, pic_insert_col, max_dir_len, blocks, lastOrig,
                    runs, run, app_reused, ws_first, err_first >>

Terminated == pc \in {"done", "error"}

\* a second invocation on a fresh worksheet, with the same App or a new one
Rerun ==
    /\ runs = 2 /\ run = 1 /\ Terminated
    /\ \E reuse \in BOOLEAN :
          /\ app' = IF reuse THEN app ELSE NewApp
          /\ app_reused' = reuse
    /\ ws_first' = ws /\ err_first' = err
    /\ ws' = EmptySheet
    /\ run' = 2
    /\ pc' = "idle" /\ err' = ""
    /\ dirs' = << >> /\ dir_idx' = 0 /\ img_idx' = 0
    /\ pic_insert_row' = 0 /\ pic_insert_col' = 0 /\ max_dir_len' = 0
    /\ blocks' = << >>
    /\ lastOrig' = NoImage
    /\ UNCHANGED << tree, image_names, fs, runs >>

Next ==
    \/ Begin
    \/ SkipDir
    \/ DirHeader
    \/ SlotLoadFails
    \/ SlotEmbed
    \/ SlotResizeRaises
    \/ DirFooter
    \/ FooterRaises
    \/ Finish

NextTwice == Next \/ Rerun

Spec == Init /\ [][Next]_vars
SpecTwice == InitTwice /\ [][NextTwice]_vars

(* ------------------------- auxiliary notions -------------------------- *)
\* nearest integer to a / b (ties to even, as Python's round)
RoundDiv(a, b) ==
    LET q == a \div b
        r == a % b
    IN  IF 2 * r < b THEN q
        ELSE IF 2 * r > b THEN q + 1
        ELSE IF q % 2 = 0 THEN q ELSE q + 1

\* column of the i-th filename's slot
SlotCol(i) == 3 + cols_per_img * (i - 1)

ImagesAt(row, col) == { k \in 1 .. Len(ws.images) :
                          ws.images[k].row = row /\ ws.images[k].col = col }

(* ------------------------------- claims ------------------------------- *)

\* C1: execute on a fresh App never raises, whichever target images fail to
\* load (every image that did load being one that img_resize can resize).
C1_LoadFailureNonFatal ==
    (run = 1 /\ \A k \in 1 .. Len(LoadedSoFar) : ~resize_raises(LoadedSoFar[k]))
        => pc # "error"

\* C4: with a missing root directory execute ends in an error; it never
\* completes normally.
C4_MissingRootFailsFast ==
    (~tree.exists /\ Terminated) => pc = "error"

\* C7: after img_resize has handled a loaded image of size (w, h), the
\* resized width is 3 * cell_width_pix, the resized height is
\* round(width * h / w), and the row span is ceil(resized height / cell height).
C7_RoundedAspectHeight ==
    lastOrig.ok =>
        /\ app.image_width = 3 * cell_width_pix
        /\ app.image_height = RoundDiv(3 * cell_width_pix * lastOrig.h, lastOrig.w)
        /\ app.rows_per_img * cell_height_pix >= app.image_height
        /\ (app.rows_per_img - 1) * cell_height_pix < app.image_height

\* C3: for every directory with files that execute is through with, every
\* filename has its label in the header row at column 3 + cols_per_img * i,
\* and an image is anchored one row below it exactly when the image loaded.
C3_LabelsAlwaysImagesIffLoaded ==
    \A b \in 1 .. Len(blocks) :
        (blocks[b].done \/ Terminated) =>
            \A i \in 1 .. N :
                LET cell == << blocks[b].row, SlotCol(i) >>
                    read == fs[blocks[b].dir].imgs
                IN  /\ cell \in DOMAIN ws.text
                    /\ ws.text[cell] = image_names[i]
                    /\ i <= Len(read)
                    /\ Cardinality(ImagesAt(blocks[b].row + 1, SlotCol(i)))
                          = IF read[i].ok THEN 1 ELSE 0

\* rows an embedded image covers, counted in cells of cell_height_pix
RowsCovered(im) == (im.h + cell_height_pix - 1) \div cell_height_pix

\* row span of a decoded image once resized to the insert width
ExpectedSpan(img) ==
    LET hh == (3 * cell_width_pix * img.h) \div img.w
    IN  (hh + cell_height_pix - 1) \div cell_height_pix

\* the images embedded in block b, in embedding order
BlockImages(b) == SelectSeq(ws.images, LAMBDA im : im.row = blocks[b].row + 1)

\* the header row of the block that follows block b (b advanced already)
NextHeaderRow(b) == IF b < Len(blocks) THEN blocks[b + 1].row ELSE pic_insert_row

\* C2: an iteration over a directory without files changes nothing: no text,
\* border or image, no label length, no cursor move, no row span.
C2_EmptyDirectoryNoEffect ==
    [][ (pc = "dirs" /\ Len(fs) < dir_idx /\ Len(fs') = dir_idx
                     /\ ~fs'[dir_idx].files)
          => /\ ws' = ws
             /\ max_dir_len' = max_dir_len
             /\ pic_insert_row' = pic_insert_row
             /\ pic_insert_col' = pic_insert_col
             /\ app' = app
             /\ blocks' = blocks
             /\ pc' = "dirs" ]_vars

C2_Witness ==
    /\ pc = "dirs" /\ dir_idx = 3 /\ Len(fs) = 2
    /\ fs[1].files /\ ~fs[2].files
    /\ Len(ws.images) >= 1 /\ pic_insert_row > 2

ProcessedLens == { Len(dirs[d]) : d \in { e \in 1 .. Len(fs) : fs[e].files } }
LongestProcessed ==
    IF ProcessedLens = {} THEN 0
    ELSE CHOOSE m \in ProcessedLens : \A x \in ProcessedLens : x <= m

\* C5: column 1's width is assigned once, when the run completes, and is the
\* longest path among the directories that hold a file.
C5_Column1Width ==
    /\ pc = "done" => (Len(fs) = Len(dirs) /\ ws.col_width = << LongestProcessed >>)
    /\ pc # "done" => ws.col_width = << >>

C5_Witness ==
    /\ pc = "done" /\ LongestProcessed > 0
    /\ \E d \in 1 .. Len(fs) : ~fs[d].files /\ Len(dirs[d]) > LongestProcessed

\* C6: a second invocation on a fresh worksheet, with the first one's App or a
\* new one, ends with the same worksheet (and the same outcome) as the first.
C6_Idempotent ==
    (run = 2 /\ Terminated) => (ws = ws_first /\ err = err_first)

C6_Witness ==
    /\ run = 2 /\ app_reused /\ pc = "done"
    /\ Len(blocks) = 2 /\ blocks[1].span # blocks[2].span
    /\ Len(ws.images) = 2

\* C8: the cursor starts at (2, 2); every filename moves the column by
\* cols_per_img, loaded or not; the column is 2 when a filename loop starts;
\* finishing a directory moves the row by the span of the image that loaded
\* last (in this directory or before it) plus 3.
C8_CursorAdvance ==
    [][ /\ (pc = "idle" /\ pc' = "dirs")
              => (pic_insert_row' = 2 /\ pic_insert_col' = 2)
        /\ (pc = "names" /\ pc' = "names")
              => (img_idx' = img_idx + 1
                  /\ pic_insert_col' = pic_insert_col + cols_per_img
                  /\ pic_insert_row' = pic_insert_row)
        /\ (pc' = "names" /\ img_idx' = 1) => pic_insert_col' = 2
        /\ (pc = "names" /\ pc' = "dirs")
              => /\ Len(LoadedSoFar) > 0
                 /\ pic_insert_row' = pic_insert_row
                        + ExpectedSpan(LoadedSoFar[Len(LoadedSoFar)]) + 3
                 /\ pic_insert_col' = 2
        /\ (pc = "dirs")
              => (pic_insert_row' = pic_insert_row /\ pic_insert_col' = pic_insert_col)
      ]_vars

C8_Witness ==
    /\ pc = "dirs" /\ Len(blocks) = 2 /\ blocks[2].done
    /\ Len(ws.images) = 2 /\ Len(BlockImages(1)) = 2
    /\ RowsCovered(ws.images[1]) > RowsCovered(ws.images[2])
    /\ pic_insert_row = blocks[2].row + RowsCovered(ws.images[2]) + 3

\* C9 as claimed: an earlier image of a directory with a larger row span than
\* the directory's last image covers the next block's header row.
C9_TallerEarlierImageOverlaps ==
    \A b \in 1 .. Len(blocks) :
        blocks[b].done =>
            LET ims == BlockImages(b)
            IN  \A k \in 1 .. Len(ims) :
                    RowsCovered(ims[k]) > RowsCovered(ims[Len(ims)])
                        => ims[k].row + RowsCovered(ims[k]) - 1 >= NextHeaderRow(b)

\* C9 amended: an earlier image covers the next block's header row when its
\* row span exceeds the directory's last image's by 3 or more.
C9_ThreeRowsTallerOverlaps ==
    \A b \in 1 .. Len(blocks) :
        blocks[b].done =>
            LET ims == BlockImages(b)
            IN  \A k \in 1 .. Len(ims) :
                    RowsCovered(ims[k]) >= RowsCovered(ims[Len(ims)]) + 3
                        => ims[k].row + RowsCovered(ims[k]) - 1 >= NextHeaderRow(b)

C9_Witness ==
    \E b \in 1 .. Len(blocks) :
        /\ blocks[b].done
        /\ Len(BlockImages(b)) = 2
        /\ RowsCovered(BlockImages(b)[1]) >= RowsCovered(BlockImages(b)[2]) + 3

\* the border cells of block b: its header row across total_columns and,
\* once the cursor has advanced, the s + 2 rows of column 1 below it
BlockCells(b) ==
    { << blocks[b].row, c >> : c \in 1 .. (1 + cols_per_img * N) }
      \cup (IF blocks[b].done
            THEN { << blocks[b].row + d, 1 >> : d \in 1 .. (blocks[b].span + 2) }
            ELSE {})

\* the style the claim gives cell x
ClaimedStyle(x) ==
    IF x[2] >= 2 THEN "top"
    ELSE IF \E b \in 1 .. Len(blocks) : blocks[b].row = x[1] /\ blocks[b].done
         THEN "right_top"
    ELSE IF \E b \in 1 .. Len(blocks) : blocks[b].row = x[1]
         THEN "top"
    ELSE "right"

ClaimedBorders ==
    [ x \in UNION { BlockCells(b) : b \in 1 .. Len(blocks) } |-> ClaimedStyle(x) ]

Column1Rows == { x[1] : x \in { y \in DOMAIN ws.border : y[2] = 1 } }

\* C10: a finished block has a top border on (r, 2..total_columns), right+top
\* on (r, 1) in place of the top border written first, right on (r+1 .. r+s+2, 1);
\* the next header row is r + s + 3, and the column-1 borders of a run cover
\* rows 2 .. cursor row - 1 with no gap and no row shared by two blocks.
C10_BlockBorders ==
    /\ ws.border = ClaimedBorders
    /\ \A b \in 1 .. Len(blocks) :
          blocks[b].done => NextHeaderRow(b) = blocks[b].row + blocks[b].span + 3
    /\ \A b1, b2 \in 1 .. Len(blocks) :
          b1 < b2 => /\ blocks[b1].done
                     /\ blocks[b2].row > blocks[b1].row + blocks[b1].span + 2
    /\ pc \in {"dirs", "done"} => Column1Rows = 2 .. (pic_insert_row - 1)

C10_Witness ==
    /\ pc = "done" /\ Len(blocks) = 2
    /\ blocks[1].span # blocks[2].span
    /\ N = 2

====
